---------------------------- MODULE Spec2Model ----------------------------
(***************************************************************************)
(* A model of medusa, a card-based DJ game: the genre catalog              *)
(* (medusa/genre.py), the card generator (medusa/generation.py), the       *)
(* scoring engine (medusa/scoring.py), the club simulator                  *)
(* (medusa/simulation.py) and the turn handler (medusa/webapp.py).         *)
(*                                                                         *)
(* Numbers.  Python floats are modelled in fixed point: a real r is the    *)
(* integer r * Scale, rounded to the nearest integer after every           *)
(* multiplication or division.  BPMs of cards, points, scores, turn        *)
(* numbers and indices are plain integers, as in the code.                 *)
(*                                                                         *)
(* Randomness.  random.Random(seed) is a deterministic generator: the      *)
(* k-th number it hands out is a function of the seed and of k.  The model *)
(* keeps that (a generator is a seed and a count of the draws taken) and   *)
(* replaces the Mersenne Twister by a small integer mixing function.       *)
(* Where the code seeds from the environment (seed None) the seed is a     *)
(* nondeterministic choice.                                                *)
(***************************************************************************)
EXTENDS Integers, Sequences, FiniteSets, Bags, TLC

VARIABLES
    genreFile,   \* the content of data/genres.json, read at import
    catalog,     \* genre.py's module state: GENRE_DEFS, GENRES, or a failed import
    state,       \* the GameState of the one session, SESSIONS[sid]
    lastDeal,    \* what the last deal_hand built before and after its shuffle
    threads,     \* the play_card executions in flight (locals and position)
    twin,        \* a second, independent run of the same game
    fnIn,        \* the arguments of a function applied on its own
    fnOut        \* its result

vars == <<genreFile, catalog, state, lastDeal, threads, twin, fnIn, fnOut>>

---------------------------------------------------------------------------
(* Bounds of the model *)

\* the longest history a function is applied to on its own
MaxHist == 3
\* the seeds of the generators a function is applied to on its own
MaxFnSeed == 8

\* accepted turns explored by the wide specifications
MaxTurns == 2
\* seeds the environment may hand out (random.randrange, Random(None))
MaxAmbient == 2
\* explicit seeds new_game is called with: 1..MaxSeed
MaxSeed == 6

---------------------------------------------------------------------------
(* medusa/config.py *)

TURNS_PER_HOUR == 15
HOURS == 6
TOTAL_TURNS == TURNS_PER_HOUR * HOURS

HAND_SIZE == 8
SIMILAR_CARDS == 5
DIFFERENT_CARDS == HAND_SIZE - SIMILAR_CARDS

BPM_MIN == 85
BPM_MAX == 175

\* one unit of a real number
Scale == 10 * 10 * 10

VIBE_MIN == (0 - 100) * Scale
VIBE_MAX == 100 * Scale
VIBE_START == 0 * Scale

\* 0.01
CAPACITY_START == Scale \div 100
\* 0.55, 0.45, 0.55
MALE_START == (55 * Scale) \div 100
QUEER_START == (45 * Scale) \div 100
NORMIE_START == (55 * Scale) \div 100

BASE_POINTS == 100
\* 0.80
SAFE_SIMILARITY_CAP == (80 * Scale) \div 100
VARIETY_WINDOW == 8

\* 0.03, 0.02, 0.06, 0.08
CHURN_BASE == (3 * Scale) \div 100
FILL_BASE == (2 * Scale) \div 100
VIBE_FILL_BOOST == (6 * Scale) \div 100
VIBE_CHURN_PENALTY == (8 * Scale) \div 100

---------------------------------------------------------------------------
(* Fixed-point arithmetic and Python's built-ins *)

\* the real r given in thousandths
Milli(n) == (n * Scale) \div 1000

Abs(x) == IF x < 0 THEN 0 - x ELSE x
Min2(a, b) == IF a < b THEN a ELSE b
Max2(a, b) == IF a > b THEN a ELSE b

\* a * b and a / b of two reals, to the nearest unit
MulFp(a, b) == (2 * a * b + Scale) \div (2 * Scale)
DivFp(a, b) == (2 * a * Scale + b) \div (2 * b)

\* float(n) of an integer, int(x) of a real (truncation toward zero)
ToFp(n) == n * Scale
py_int(x) == IF x >= 0 THEN x \div Scale ELSE 0 - ((0 - x) \div Scale)

\* round(x): to the nearest integer, ties to the even one
py_round(x) ==
    LET fl == x \div Scale
        fr == x - fl * Scale
    IN  IF 2 * fr < Scale THEN fl
        ELSE IF 2 * fr > Scale THEN fl + 1
        ELSE IF fl % 2 = 0 THEN fl ELSE fl + 1

\* clamp of scoring.py, simulation.py and webapp.py (the three are the same)
clamp(x, lo, hi) == IF x < lo THEN lo ELSE IF x > hi THEN hi ELSE x

Range(s) == {s[i] : i \in DOMAIN s}

None == << >>
Some(v) == <<v>>


\* the outcome of a call: a value, or the exception it raised
Ok(v) == [err |-> "none", v |-> v]
Raise(e) == [err |-> e, v |-> None]

\* the exception of the first call that raised, in evaluation order
FirstError(rs) ==
    IF \A i \in DOMAIN rs : rs[i].err = "none" THEN "none"
    ELSE rs[CHOOSE i \in DOMAIN rs :
                /\ rs[i].err # "none"
                /\ \A j \in 1..(i - 1) : rs[j].err = "none"].err

---------------------------------------------------------------------------
(* JSON values, as json.load returns them *)

JNum(v) == [t |-> "num", v |-> v]
JStr == [t |-> "str"]
JNull == [t |-> "null"]
JList == [t |-> "list"]
\* a dict: f maps its keys to their values
JObj(f) == [t |-> "obj", f |-> f]

\* d.get(k, dflt): AttributeError when d is no dict
dict_get(d, k, dflt) ==
    IF d.t # "obj" THEN Raise("AttributeError")
    ELSE Ok(IF k \in DOMAIN d.f THEN d.f[k] ELSE dflt)

\* float(j)
py_float(j) ==
    IF j.t = "num" THEN Ok(j.v)
    ELSE IF j.t = "str" THEN Raise("ValueError")
    ELSE Raise("TypeError")

\* list(j)
py_list(j) ==
    IF j.t \in {"num", "null"} THEN Raise("TypeError") ELSE Ok(<< >>)

\* float(d.get(k, dflt))
float_field(d, k, dflt) ==
    LET g == dict_get(d, k, JNum(dflt))
    IN  IF g.err # "none" THEN g ELSE py_float(g.v)

\* float(d.get(k, dflt)) if d.get(k) is not None else None
opt_float_field(d, k, dflt) ==
    LET g == dict_get(d, k, JNull)
    IN  IF g.err # "none" THEN g
        ELSE IF g.v.t = "null" THEN Ok(None)
        ELSE LET x == py_float(g.v)
             IN  IF x.err # "none" THEN x ELSE Ok(Some(x.v))

\* float(d.get(axis, {}).get(k, dflt))
axis_field(d, axis, k, dflt) ==
    LET a == dict_get(d, axis, JObj(<< >>))
    IN  IF a.err # "none" THEN a ELSE float_field(a.v, k, dflt)

---------------------------------------------------------------------------
(* medusa/genre.py *)

Dist(mean, std, min, max) == [mean |-> mean, std |-> std, min |-> min, max |-> max]

_default_genre(name) ==
    [name |-> name,
     bpm |-> Dist(ToFp(125), ToFp(10), Some(ToFp(BPM_MIN)), Some(ToFp(BPM_MAX))),
     appeal_male |-> Dist(Milli(500), Milli(120), None, None),
     appeal_queer |-> Dist(Milli(500), Milli(120), None, None),
     appeal_normie |-> Dist(Milli(500), Milli(120), None, None),
     attributes |-> << >>]

\* GenreDef(...) of load_genres, from the values of its eleven arguments in
\* evaluation order: the first exception among them, or the GenreDef
make_entry(name, parts) ==
    IF FirstError(parts) # "none" THEN Raise(FirstError(parts))
    ELSE Ok([name |-> name,
             bpm |-> Dist(parts[1].v, parts[2].v, parts[3].v, parts[4].v),
             appeal_male |-> Dist(parts[5].v, parts[6].v, None, None),
             appeal_queer |-> Dist(parts[7].v, parts[8].v, None, None),
             appeal_normie |-> Dist(parts[9].v, parts[10].v, None, None),
             attributes |-> parts[11].v])

\* list(g.get("attributes", []))
attributes_field(g) ==
    IF dict_get(g, "attributes", JList).err # "none"
    THEN dict_get(g, "attributes", JList)
    ELSE py_list(dict_get(g, "attributes", JList).v)

\* the body of load_genres' loop, with bpm = g.get("bpm", {}) and
\* appeal = g.get("appeal", {})
entry_of(name, g, bpm, appeal) ==
    make_entry(name, <<
        float_field(bpm, "mean", ToFp(125)),
        float_field(bpm, "std", ToFp(10)),
        opt_float_field(bpm, "min", ToFp(BPM_MIN)),
        opt_float_field(bpm, "max", ToFp(BPM_MAX)),
        axis_field(appeal, "male", "mean", Milli(500)),
        axis_field(appeal, "male", "std", Milli(120)),
        axis_field(appeal, "queer", "mean", Milli(500)),
        axis_field(appeal, "queer", "std", Milli(120)),
        axis_field(appeal, "normie", "mean", Milli(500)),
        axis_field(appeal, "normie", "std", Milli(120)),
        attributes_field(g) >>)

\* the GenreDef load_genres builds from one item of the file
load_entry(name, g) ==
    IF g.t # "obj" THEN Raise("AttributeError")
    ELSE entry_of(name, g, dict_get(g, "bpm", JObj(<< >>)).v,
                  dict_get(g, "appeal", JObj(<< >>)).v)

\* out[name] = e.v, or the exception e
put_entry(out, name, e) ==
    IF e.err # "none" THEN e
    ELSE Ok([n \in DOMAIN out \cup {name} |-> IF n = name THEN e.v ELSE out[n]])

\* the loop of load_genres over raw.items(), from item i on; acc is the dict
\* built so far, or the exception that ended the loop
RECURSIVE load_items(_, _, _)
load_items(items, i, acc) ==
    IF i > Len(items) \/ acc.err # "none" THEN acc
    ELSE load_items(items, i + 1,
            put_entry(acc.v, items[i][1], load_entry(items[i][1], items[i][2])))

\* file: the state of data/genres.json. The top-level dict holds its items
\* in file order.
load_genres(file) ==
    IF file.status = "missing" THEN Raise("FileNotFoundError")
    ELSE IF file.status = "unparsable" THEN Raise("JSONDecodeError")
    ELSE IF file.raw.t # "obj" THEN Raise("AttributeError")
    ELSE load_items(file.raw.items, 1, Ok(<< >>))

\* the genre names the model knows, in Python's string order
AlphaNames ==
    << "disco", "dnb", "electro", "funk", "garage",
       "hiphop", "house", "pop", "rnb", "techno" >>

\* sorted(keys)
py_sorted(keys) == SelectSeq(AlphaNames, LAMBDA n : n \in keys)

FallbackGenres ==
    << "house", "techno", "disco", "hiphop", "pop",
       "rnb", "garage", "dnb", "electro", "funk" >>

Unloaded == [status |-> "unloaded", error |-> "none", GENRE_DEFS |-> << >>, GENRES |-> << >>]

\* what the module-level statements of genre.py make of load_genres' outcome r
genre_module(r) ==
    IF r.err = "none"
    THEN [status |-> "ok", error |-> "none", GENRE_DEFS |-> r.v,
          GENRES |-> IF DOMAIN r.v # {} THEN py_sorted(DOMAIN r.v)
                     ELSE FallbackGenres]
    ELSE IF r.err = "FileNotFoundError"
    THEN [status |-> "ok", error |-> "none", GENRE_DEFS |-> << >>,
          GENRES |-> FallbackGenres]
    ELSE [status |-> "failed", error |-> r.err, GENRE_DEFS |-> << >>,
          GENRES |-> << >>]

\* the module-level statements of genre.py: GENRE_DEFS and GENRES, or the
\* exception that ends the import
import_genre(file) == genre_module(load_genres(file))

GENRE_DEFS == catalog.GENRE_DEFS
GENRES == catalog.GENRES

KnownGenre(genre) == genre \in Range(GENRES)

\* 0-based position on the ring; ValueError for a name not in GENRES
genre_index(genre) ==
    IF KnownGenre(genre)
    THEN Ok((CHOOSE i \in DOMAIN GENRES :
                /\ GENRES[i] = genre
                /\ \A j \in 1..(i - 1) : GENRES[j] # genre) - 1)
    ELSE Raise("ValueError")

\* min(raw, n - raw) of two positions, or the exception of the lookup
\* a distance along the list, not around the ring
ring_distance_flat(ia, ib) ==
    IF ia.err # "none" THEN ia
    ELSE IF ib.err # "none" THEN ib
    ELSE Ok(Abs(ia.v - ib.v))

ring_distance(ia, ib) ==
    IF ia.err # "none" THEN ia
    ELSE IF ib.err # "none" THEN ib
    ELSE Ok(Min2(Abs(ia.v - ib.v), Len(GENRES) - Abs(ia.v - ib.v)))

genre_distance(a, b) == ring_distance(genre_index(a), genre_index(b))

\* d / max_dist
norm_distance(d) ==
    IF d.err # "none" THEN d
    ELSE Ok(DivFp(ToFp(d.v), ToFp(Max2(1, Len(GENRES) \div 2))))

genre_distance_norm(a, b) == norm_distance(genre_distance(a, b))

bpm_distance_norm(bpm_a, bpm_b) ==
    DivFp(ToFp(Abs(bpm_a - bpm_b)), ToFp(BPM_MAX - BPM_MIN))

\* 1.0 - min(dist, 1.0) with dist = 0.65 * gd + 0.35 * bd
similarity_of(gd, bd) ==
    IF gd.err # "none" THEN gd
    ELSE Ok(Scale - Min2(MulFp(Milli(650), gd.v) + MulFp(Milli(350), bd), Scale))

\* genre_weight = 0.65, bpm_weight = 0.35
song_similarity(genre_a, bpm_a, genre_b, bpm_b) ==
    similarity_of(genre_distance_norm(genre_a, genre_b),
                  bpm_distance_norm(bpm_a, bpm_b))

\* GENRE_DEFS.get(name) or _default_genre(name)
get_genre_def(name) ==
    IF name \in DOMAIN GENRE_DEFS THEN GENRE_DEFS[name] ELSE _default_genre(name)

---------------------------------------------------------------------------
(* random.Random *)

\* the generator's raw outputs are the integers 0 .. RawSpan - 1
RawSpan == 256 * 256

\* Random(seed): no draw taken yet
Random(seed) == [kind |-> "seeded", s |-> seed, n |-> 0, log |-> << >>]

\* a generator whose outputs are given: `first` for its first `count`
\* draws, `rest` from then on
Scripted(first, count, rest) ==
    [kind |-> "scripted", s |-> <<first, count, rest>>, n |-> 0, log |-> << >>]

\* the n-th raw output of the generator seeded with s
Mix(s, n) ==
    LET a == ((s % 65521) * 25173 + n * 13849 + 1) % RawSpan
        b == ((a \div 256) * (a % 256) * 7 + a * 5 + (a \div 4096) + 3) % RawSpan
    IN  (b * 75 + (b \div 256) + 74) % RawSpan

\* the raw output of the next draw
RngRaw(rng) ==
    IF rng.kind = "seeded" THEN Mix(rng.s, rng.n)
    ELSE IF rng.n < rng.s[2] THEN rng.s[1] ELSE rng.s[3]

\* the generator after a draw of the given kind
RngStep(rng, kind) == [rng EXCEPT !.n = @ + 1, !.log = Append(@, kind)]

\* rng.random(): a real in [0, 1)
rng_random(rng) ==
    [v |-> (RngRaw(rng) * Scale) \div RawSpan, rng |-> RngStep(rng, "random")]

\* the standard normal deviates the model draws from
ZTable ==
    << Milli(0 - 3200), Milli(0 - 1800), Milli(0 - 1300), Milli(0 - 1000),
       Milli(0 - 750), Milli(0 - 500), Milli(0 - 300), Milli(0 - 100),
       Milli(100), Milli(300), Milli(500), Milli(750),
       Milli(1000), Milli(1300), Milli(1800), Milli(3200) >>

\* rng.gauss(mean, std)
rng_gauss(rng, mean, std) ==
    [v |-> mean + MulFp(std, ZTable[1 + ((RngRaw(rng) \div 16) % 16)]),
     rng |-> RngStep(rng, "gauss")]

\* rng.uniform(a, b) = a + (b - a) * random()
rng_uniform(rng, a, b) ==
    [v |-> a + MulFp(b - a, (RngRaw(rng) * Scale) \div RawSpan),
     rng |-> RngStep(rng, "uniform")]

\* rng.choice(seq)
rng_choice(rng, seq) ==
    [v |-> seq[1 + ((RngRaw(rng) * Len(seq)) \div RawSpan)],
     rng |-> RngStep(rng, "choice")]

\* a swap that loses x[i]
Swap_overwrite(x, i, j) == [x EXCEPT ![i] = x[j]]

Swap(x, i, j) == [x EXCEPT ![i] = x[j], ![j] = x[i]]

\* rng.shuffle(x): for i in reversed(range(1, len(x))): j = randbelow(i + 1);
\* x[i], x[j] = x[j], x[i]      (i, j 0-based; the sequence is 1-based)
RECURSIVE shuffle_from(_, _, _)
shuffle_from(rng, x, i) ==
    IF i < 1 THEN [v |-> x, rng |-> rng]
    ELSE LET j == (RngRaw(rng) * (i + 1)) \div RawSpan
         IN  shuffle_from(RngStep(rng, "shuffle"), Swap(x, i + 1, j + 1), i - 1)

rng_shuffle(rng, x) == shuffle_from(rng, x, Len(x) - 1)

---------------------------------------------------------------------------
(* medusa/models.py *)

SongCard(bpm, genre) == [bpm |-> bpm, genre |-> genre]

ClubState(capacity, male, queer, normie) ==
    [capacity |-> capacity, male |-> male, queer |-> queer, normie |-> normie]

---------------------------------------------------------------------------
(* medusa/generation.py *)

\* a call that draws: its value or exception, and the generator after it
ROk(v, rng) == [err |-> "none", v |-> v, rng |-> rng]
RErr(e, rng) == [err |-> e, v |-> None, rng |-> rng]

clamp_int(x, lo, hi) == IF x < lo THEN lo ELSE IF x > hi THEN hi ELSE x

\* a test that forgets the upper bound
in_bounds_below(x, lo, hi) == ToFp(lo) <= x

\* the test of the rejection loop on the draw x: lo <= x <= hi
in_bounds(x, lo, hi) == ToFp(lo) <= x /\ x <= ToFp(hi)

\* the rejection loop of sample_trunc_normal_int with `left` attempts to go
\* and x the draw of this attempt
RECURSIVE trunc_loop(_, _, _, _, _, _)
RECURSIVE trunc_try(_, _, _, _, _, _)
trunc_try(x, mean, std, lo, hi, left) ==
    IF in_bounds(x.v, lo, hi) THEN [v |-> py_round(x.v), rng |-> x.rng]
    ELSE trunc_loop(x.rng, mean, std, lo, hi, left - 1)

trunc_loop(rng, mean, std, lo, hi, left) ==
    IF left = 0 THEN [v |-> clamp_int(py_round(mean), lo, hi), rng |-> rng]
    ELSE trunc_try(rng_gauss(rng, mean, std), mean, std, lo, hi, left)

sample_trunc_normal_int(rng, mean, std, lo, hi) ==
    IF std <= 0 THEN [v |-> clamp_int(py_round(mean), lo, hi), rng |-> rng]
    ELSE trunc_loop(rng, mean, std, lo, hi, 30)

random_genre(rng) == rng_choice(rng, GENRES)

\* the two adjacent genres of position i on the ring
ring_neighbors(i) ==
    IF i.err # "none" THEN i
    ELSE Ok(<< GENRES[1 + ((i.v - 1) % Len(GENRES))],
               GENRES[1 + ((i.v + 1) % Len(GENRES))] >>)

_neighbor_genres(genre) == ring_neighbors(genre_index(genre))

\* genres at least min_dist away on the ring; a lookup that raises ends the
\* comprehension
_far_genres(active_genre, min_dist) ==
    IF \E k \in DOMAIN GENRES : genre_distance(active_genre, GENRES[k]).err # "none"
    THEN Raise("ValueError")
    ELSE Ok(SelectSeq(GENRES,
                LAMBDA g : genre_distance(active_genre, g).v >= min_dist))

\* max(BPM_MIN, lo), min(BPM_MAX, hi) and the fallback of _genre_bpm_bounds
clip_bounds(lo, hi) ==
    IF Max2(BPM_MIN, lo) >= Min2(BPM_MAX, hi) THEN <<BPM_MIN, BPM_MAX>>
    ELSE <<Max2(BPM_MIN, lo), Min2(BPM_MAX, hi)>>

\* the bounds of the GenreDef gd
def_bounds(gd) ==
    clip_bounds(IF gd.bpm.min # None THEN py_int(gd.bpm.min[1]) ELSE BPM_MIN,
                IF gd.bpm.max # None THEN py_int(gd.bpm.max[1]) ELSE BPM_MAX)

_genre_bpm_bounds(genre) == def_bounds(get_genre_def(genre))

\* SongCard(bpm, genre) of a BPM draw
card_of(bpm, genre) == ROk(SongCard(bpm.v, genre), bpm.rng)

\* gen_base_song once the genre g is drawn
base_song_of(g) ==
    card_of(sample_trunc_normal_int(g.rng, get_genre_def(g.v).bpm.mean,
                get_genre_def(g.v).bpm.std,
                _genre_bpm_bounds(g.v)[1], _genre_bpm_bounds(g.v)[2]),
            g.v)

\* a random song whose BPM is shaped by the genre distribution
gen_base_song(rng) == base_song_of(random_genre(rng))

\* gen_similar_song once the genre g is drawn:
\* mean = 0.65 * active.bpm + 0.35 * gd.bpm.mean, std = max(3.0, gd.bpm.std * 0.70)
similar_card(g, active) ==
    IF g.err # "none" THEN g
    ELSE card_of(sample_trunc_normal_int(g.rng,
                    MulFp(Milli(650), ToFp(active.bpm))
                        + MulFp(Milli(350), get_genre_def(g.v).bpm.mean),
                    Max2(ToFp(3), MulFp(get_genre_def(g.v).bpm.std, Milli(700))),
                    _genre_bpm_bounds(g.v)[1], _genre_bpm_bounds(g.v)[2]),
                 g.v)

\* rng.choice([left, right])
neighbor_choice(rng, nb) ==
    IF nb.err # "none" THEN RErr(nb.err, rng)
    ELSE [err |-> "none", v |-> rng_choice(rng, nb.v).v,
          rng |-> rng_choice(rng, nb.v).rng]

\* the genre of a similar card, r being the draw of rng.random()
similar_genre(r, active) ==
    IF r.v < Milli(750) THEN ROk(active.genre, r.rng)
    ELSE neighbor_choice(r.rng, _neighbor_genres(active.genre))

gen_similar_song(rng, active) ==
    similar_card(similar_genre(rng_random(rng), active), active)

\* the occasional wildcard BPM: r is the draw of rng.random(), bpm the BPM
\* drawn before it
wildcard(r, bpm, genre) ==
    IF r.v < Milli(120)
    THEN card_of(sample_trunc_normal_int(r.rng, get_genre_def(genre).bpm.mean,
                    MulFp(get_genre_def(genre).bpm.std, Milli(1250)),
                    _genre_bpm_bounds(genre)[1], _genre_bpm_bounds(genre)[2]),
                 genre)
    ELSE ROk(SongCard(bpm.v, genre), r.rng)

\* gen_different_song once its first BPM is drawn
different_bpm(bpm, genre) == wildcard(rng_random(bpm.rng), bpm, genre)

\* gen_different_song once the genre g is drawn:
\* mean = 0.25 * active.bpm + 0.75 * gd.bpm.mean, std = max(4.0, gd.bpm.std)
different_card(g, active) ==
    different_bpm(sample_trunc_normal_int(g.rng,
                    MulFp(Milli(250), ToFp(active.bpm))
                        + MulFp(Milli(750), get_genre_def(g.v).bpm.mean),
                    Max2(ToFp(4), get_genre_def(g.v).bpm.std),
                    _genre_bpm_bounds(g.v)[1], _genre_bpm_bounds(g.v)[2]),
                  g.v)

\* rng.choice(candidates) if candidates else random_genre(rng)
different_genre(rng, candidates, active) ==
    IF candidates.err # "none" THEN RErr(candidates.err, rng)
    ELSE different_card(IF candidates.v # << >> THEN rng_choice(rng, candidates.v)
                        ELSE random_genre(rng),
                        active)

gen_different_song(rng, active) ==
    different_genre(rng, _far_genres(active.genre, 3), active)

\* for _ in range(k): hand.append(gen_similar_song(rng, active));
\* c is the card of this pass
RECURSIVE similar_loop(_, _, _, _)
RECURSIVE similar_next(_, _, _, _)
similar_next(c, active, k, hand) ==
    IF c.err # "none" THEN c
    ELSE similar_loop(c.rng, active, k - 1, Append(hand, c.v))

similar_loop(rng, active, k, hand) ==
    IF k = 0 THEN ROk(hand, rng)
    ELSE similar_next(gen_similar_song(rng, active), active, k, hand)

\* for _ in range(k): hand.append(gen_different_song(rng, active))
RECURSIVE different_loop(_, _, _, _)
RECURSIVE different_next(_, _, _, _)
different_next(c, active, k, hand) ==
    IF c.err # "none" THEN c
    ELSE different_loop(c.rng, active, k - 1, Append(hand, c.v))

different_loop(rng, active, k, hand) ==
    IF k = 0 THEN ROk(hand, rng)
    ELSE different_next(gen_different_song(rng, active), active, k, hand)

\* a second loop that runs one pass short
then_different_short(sim, active) ==
    IF sim.err # "none" THEN sim
    ELSE different_loop(sim.rng, active, DIFFERENT_CARDS - 1, sim.v)

\* the second loop of deal_hand, after the first one's outcome sim
then_different(sim, active) ==
    IF sim.err # "none" THEN sim
    ELSE different_loop(sim.rng, active, DIFFERENT_CARDS, sim.v)

\* the list deal_hand builds before it shuffles
deal_list(rng, active) ==
    then_different(similar_loop(rng, active, SIMILAR_CARDS, << >>), active)

\* what deal_hand returns for the shuffled list sh of l: v is the hand, pre
\* the list before rng.shuffle
dealt(l, sh) == [err |-> "none", v |-> sh.v, rng |-> sh.rng, pre |-> l.v]

\* rng.shuffle(hand); return hand
shuffle_list(l) ==
    IF l.err # "none" THEN [err |-> l.err, v |-> None, rng |-> l.rng, pre |-> None]
    ELSE dealt(l, rng_shuffle(l.rng, l.v))

deal_hand(rng, active) ==
    IF SIMILAR_CARDS + DIFFERENT_CARDS # HAND_SIZE
    THEN [err |-> "ValueError", v |-> None, rng |-> rng, pre |-> None]
    ELSE shuffle_list(deal_list(rng, active))

---------------------------------------------------------------------------
(* medusa/scoring.py *)

vibe_to_01(vibe) ==
    IF VIBE_MAX - VIBE_MIN <= 0 THEN Milli(500)
    ELSE clamp(DivFp(vibe - VIBE_MIN, VIBE_MAX - VIBE_MIN), 0, Scale)

\* ratio * a + (1 - ratio) * (1 - a), a being the draw clamped to [0, 1]
axis_part(ratio, draw) ==
    MulFp(ratio, clamp(draw, 0, Scale))
        + MulFp(Scale - ratio, Scale - clamp(draw, 0, Scale))

\* 0.25 + 0.75 * blended of the three draws
appeal_of(club, g1, g2, g3) ==
    [v |-> Milli(250) + MulFp(Milli(750),
                DivFp(axis_part(club.male, g1.v) + axis_part(club.queer, g2.v)
                        + axis_part(club.normie, g3.v), ToFp(3))),
     rng |-> g3.rng]

\* the draws of a_queer and a_normie, after the draw g1 of a_male
appeal_draws(club, gd, g1) ==
    appeal_of(club, g1,
        rng_gauss(g1.rng, gd.appeal_queer.mean, gd.appeal_queer.std),
        rng_gauss(rng_gauss(g1.rng, gd.appeal_queer.mean, gd.appeal_queer.std).rng,
                  gd.appeal_normie.mean, gd.appeal_normie.std))

sample_appeal_for_room(rng, club, genre) ==
    appeal_draws(club, get_genre_def(genre),
        rng_gauss(rng, get_genre_def(genre).appeal_male.mean,
                  get_genre_def(genre).appeal_male.std))

\* history[-k:]
LastK(history, k) ==
    IF Len(history) <= k THEN history
    ELSE SubSeq(history, Len(history) - k + 1, Len(history))

\* unique / len(genres) of the genres of recent plus the chosen one
variety_of(recent, chosen) ==
    DivFp(ToFp(Cardinality({recent[i].chosen_card.genre : i \in DOMAIN recent}
                                \cup {chosen.genre})),
          ToFp(Len(recent) + 1))

variety_score(history, chosen) ==
    variety_of(IF VARIETY_WINDOW > 0 THEN LastK(history, VARIETY_WINDOW)
               ELSE history, chosen)

\* "samey" = same genre + close bpm
samey(prev, chosen) ==
    prev.genre = chosen.genre /\ Abs(prev.bpm - chosen.bpm) <= 8

\* one pass of repetition_penalty's loop on the entry's card prev, sim being
\* song_similarity(prev, chosen)
rep_apply(acc, prev, chosen, sim) ==
    IF sim.err # "none" THEN [acc EXCEPT !.err = sim.err]
    ELSE [err |-> "none",
          hits |-> IF samey(prev, chosen) THEN acc.hits + 1 ELSE acc.hits,
          mult |-> IF sim.v >= Milli(880)
                   THEN MulFp(IF samey(prev, chosen)
                              THEN MulFp(acc.mult, Milli(720)) ELSE acc.mult,
                              Milli(880))
                   ELSE IF samey(prev, chosen)
                        THEN MulFp(acc.mult, Milli(720)) ELSE acc.mult]

rep_step(acc, prev, chosen) ==
    rep_apply(acc, prev, chosen,
              song_similarity(prev.genre, prev.bpm, chosen.genre, chosen.bpm))

\* for tr in reversed(window), from window[i] down to window[1]
RECURSIVE rep_loop(_, _, _, _)
rep_loop(window, i, chosen, acc) ==
    IF i < 1 \/ acc.err # "none" THEN acc
    ELSE rep_loop(window, i - 1, chosen,
                  rep_step(acc, window[i].chosen_card, chosen))

\* mult = clamp(mult, 0.30, 1.0)
rep_result(r) ==
    [err |-> r.err, rep_mult |-> clamp(r.mult, Milli(300), Scale),
     rep_hits |-> r.hits]

repetition_penalty(history, chosen) ==
    rep_result(rep_loop(LastK(history, 3), Len(LastK(history, 3)), chosen,
                        [err |-> "none", hits |-> 0, mult |-> Scale]))

TRAINWRECK_MSG == "TRAINWRECK! You lose the room - people bail fast."
SURPRISE_MSG == "Switch-up lands - hands go up."

\* the reaction when neither a trainwreck nor a surprise set one
plain_reaction(rep_mult, appeal, similarity) ==
    IF rep_mult < Milli(650) THEN "Same lane too long - the room gets restless."
    ELSE IF appeal > Milli(850) /\ similarity > Milli(550)
        THEN "Locked in. The room nods in unison."
    ELSE IF appeal > Milli(850) /\ similarity <= Milli(550)
        THEN "Bold choice, but it hits. The floor heats up."
    ELSE IF appeal <= Milli(600) /\ similarity > Milli(700)
        THEN "Safe, but the room looks bored."
    ELSE IF appeal <= Milli(600) /\ similarity <= Milli(550)
        THEN "Hmm... people start drifting."
    ELSE "Solid. The vibe holds."

\* the multipliers and raw_points = BASE_POINTS * vibe_mult * appeal_mult *
\* variety_mult * safe_penalty * rep_mult
multipliers(vibe01, similarity, appeal, variety, rep_mult) ==
    [safe_penalty |-> IF similarity >= SAFE_SIMILARITY_CAP THEN Milli(700) ELSE Scale,
     variety_mult |-> Milli(550) + MulFp(Milli(600), variety),
     vibe_mult |-> Milli(350) + MulFp(Milli(1150), vibe01),
     appeal_mult |-> Milli(550) + MulFp(Milli(950), appeal)]

raw_points_of(m, rep_mult) ==
    MulFp(MulFp(MulFp(MulFp(BASE_POINTS * m.vibe_mult, m.appeal_mult),
                      m.variety_mult), m.safe_penalty), rep_mult)

\* a chance that ignores the threshold
trainwreck_chance_anywhere(similarity, vibe01) ==
    clamp(MulFp(Scale - similarity, Milli(1050))
            + MulFp(Scale - vibe01, Milli(350)), 0, Milli(880))

trainwreck_chance_of(similarity, vibe01) ==
    IF similarity < Milli(450)
    THEN clamp(MulFp(Scale - similarity, Milli(1050))
                    + MulFp(Scale - vibe01, Milli(350)), 0, Milli(880))
    ELSE 0

surprise_chance_of(appeal, variety, similarity) ==
    clamp(MulFp(appeal, Milli(180)) + MulFp(variety, Milli(140))
            - MulFp(similarity, Milli(100)), 0, Milli(140))

\* vibe_delta before the trainwreck or surprise
vibe_delta_of(appeal, variety, risk, rep_mult) ==
    (appeal - Milli(650)) * 22 + (variety - Milli(550)) * 12
        - risk * 12 - (Scale - rep_mult) * 18

\* what score_choice returns, given which of the two events fired
score_result(q, m, raw, delta, did_trainwreck, did_surprise, rng) ==
    [err |-> "none",
     points |-> Max2(0, py_round(
                    IF did_trainwreck THEN MulFp(raw, Milli(120))
                    ELSE IF did_surprise THEN MulFp(raw, Milli(1120))
                    ELSE raw)),
     vibe_delta |-> IF did_trainwreck
                    THEN delta - (ToFp(26) + 28 * (Scale - q.similarity))
                    ELSE IF did_surprise THEN delta + ToFp(6)
                    ELSE delta,
     reaction |-> IF did_trainwreck THEN TRAINWRECK_MSG
                  ELSE IF did_surprise THEN SURPRISE_MSG
                  ELSE plain_reaction(q.rep_mult, q.appeal, q.similarity),
     diag |-> [vibe01 |-> q.vibe01, similarity |-> q.similarity,
               risk |-> Scale - q.similarity, appeal |-> q.appeal,
               variety |-> q.variety, safe_penalty |-> m.safe_penalty,
               rep_mult |-> q.rep_mult, rep_hits |-> ToFp(q.rep_hits),
               trainwreck_threshold |-> Milli(450),
               trainwreck_chance |-> trainwreck_chance_of(q.similarity, q.vibe01),
               did_trainwreck |-> IF did_trainwreck THEN Scale ELSE 0,
               vibe_mult |-> m.vibe_mult, appeal_mult |-> m.appeal_mult,
               variety_mult |-> m.variety_mult],
     rng |-> rng]

\* the else branch of `if did_trainwreck`: su is the draw of the surprise
surprise_branch(q, m, su) ==
    score_result(q, m, raw_points_of(m, q.rep_mult),
        vibe_delta_of(q.appeal, q.variety, Scale - q.similarity, q.rep_mult),
        FALSE,
        su.v < surprise_chance_of(q.appeal, q.variety, q.similarity)
            /\ q.similarity < Milli(750),
        su.rng)

\* did_trainwreck = rng.random() < trainwreck_chance, tw being the draw
trainwreck_branch(q, m, tw) ==
    IF tw.v < trainwreck_chance_of(q.similarity, q.vibe01)
    THEN score_result(q, m, raw_points_of(m, q.rep_mult),
            vibe_delta_of(q.appeal, q.variety, Scale - q.similarity, q.rep_mult),
            TRUE, FALSE, tw.rng)
    ELSE surprise_branch(q, m, rng_random(tw.rng))

\* score_choice from the quantities q it computed before its first event draw
score_events(q, rng) ==
    trainwreck_branch(q,
        multipliers(q.vibe01, q.similarity, q.appeal, q.variety, q.rep_mult),
        rng_random(rng))

\* score_choice after its calls of song_similarity, sample_appeal_for_room,
\* variety_score and repetition_penalty
score_parts(vibe01, sim, ap, variety, rep, rng) ==
    IF sim.err # "none" THEN [err |-> sim.err, rng |-> rng]
    ELSE IF rep.err # "none" THEN [err |-> rep.err, rng |-> ap.rng]
    ELSE score_events([vibe01 |-> vibe01, similarity |-> sim.v, appeal |-> ap.v,
                       variety |-> variety, rep_mult |-> rep.rep_mult,
                       rep_hits |-> rep.rep_hits], ap.rng)

score_choice(rng, turn_index, score_total, vibe, club, active_song, chosen, history) ==
    score_parts(vibe_to_01(vibe),
        song_similarity(active_song.genre, active_song.bpm, chosen.genre, chosen.bpm),
        sample_appeal_for_room(rng, club, chosen.genre),
        variety_score(history, chosen),
        repetition_penalty(history, chosen),
        rng)

---------------------------------------------------------------------------
(* medusa/simulation.py *)

\* churn and fill of update_club
churn_of(v01, did_trainwreck) ==
    CHURN_BASE + MulFp(Scale - v01, MulFp(VIBE_CHURN_PENALTY, Milli(1350)))
        + (IF did_trainwreck THEN Milli(140) ELSE 0)

fill_of(v01, did_trainwreck) ==
    IF did_trainwreck
    THEN MulFp(FILL_BASE + MulFp(v01, MulFp(VIBE_FILL_BOOST, Milli(950))), Milli(450))
    ELSE FILL_BASE + MulFp(v01, MulFp(VIBE_FILL_BOOST, Milli(950)))

\* cap_after += (1.0 - cap_after) * fill, then the clamp
fill_up(cap, fill) == clamp(cap + MulFp(Scale - cap, fill), 0, Scale)

\* cap_after -= cap_after * churn, then the fill
next_capacity(cap_before, churn, fill) ==
    fill_up(cap_before - MulFp(cap_before, churn), fill)

turbulence_of(v01, did_trainwreck) ==
    MulFp(Scale - v01, Milli(220)) + (IF did_trainwreck THEN Milli(180) ELSE 0)

\* a walk that is not reflected
reflect_unbounded(value, step) == value + step

\* clamp(value + step, 0.02, 0.98)
reflect(value, step) == clamp(value + step, Milli(20), Milli(980))

\* drift(value): a random walk with reflective bounds; the generator after it
drift(rng, value, turbulence) ==
    [v |-> reflect(value, MulFp(rng_uniform(rng, Milli(0 - 60), Milli(60)).v,
                                Milli(550) + turbulence)),
     rng |-> RngStep(rng, "uniform")]

\* clamp(value + rng.uniform(-boost, boost), 0.02, 0.98)
jitter(rng, value, boost) ==
    [v |-> reflect(value, rng_uniform(rng, 0 - boost, boost).v),
     rng |-> RngStep(rng, "uniform")]

\* the three ratios after one walk each (d1, d2 the first two)
drift3(d1, d2, club, turbulence) ==
    [male |-> d1.v, queer |-> d2.v,
     normie |-> drift(d2.rng, club.normie, turbulence).v,
     rng |-> drift(d2.rng, club.normie, turbulence).rng]

drift2(d1, club, turbulence) ==
    drift3(d1, drift(d1.rng, club.queer, turbulence), club, turbulence)

\* the extra "room turnover" jitter of the ratios r (j1, j2 the first two)
jitter3(j1, j2, r, boost) ==
    [male |-> j1.v, queer |-> j2.v,
     normie |-> jitter(j2.rng, r.normie, boost).v,
     rng |-> jitter(j2.rng, r.normie, boost).rng]

jitter2(j1, r, boost) == jitter3(j1, jitter(j1.rng, r.queer, boost), r, boost)

\* a turnover that jitters whatever the capacity did
turnover_always(r, cap_delta_abs) ==
    jitter2(jitter(r.rng, r.male, Min2(Milli(120), MulFp(cap_delta_abs, Milli(1500)))),
            r, Min2(Milli(120), MulFp(cap_delta_abs, Milli(1500))))

turnover(r, cap_delta_abs) ==
    IF cap_delta_abs > Milli(40)
    THEN jitter2(jitter(r.rng, r.male, Min2(Milli(120), MulFp(cap_delta_abs, Milli(1500)))),
                 r, Min2(Milli(120), MulFp(cap_delta_abs, Milli(1500))))
    ELSE r

\* new_club and sim_diag from the ratios r after drift and turnover
club_result(club, cap_after, churn, fill, turbulence, r) ==
    [club |-> ClubState(cap_after, r.male, r.queer, r.normie),
     sim_diag |-> [capacity_before |-> club.capacity, capacity_after |-> cap_after,
                   capacity_delta |-> cap_after - club.capacity,
                   male_before |-> club.male, male_after |-> r.male,
                   male_delta |-> r.male - club.male,
                   queer_before |-> club.queer, queer_after |-> r.queer,
                   queer_delta |-> r.queer - club.queer,
                   normie_before |-> club.normie, normie_after |-> r.normie,
                   normie_delta |-> r.normie - club.normie,
                   churn |-> churn, fill |-> fill, turbulence |-> turbulence],
     rng |-> r.rng]

\* update_club from the capacity on
club_walk(rng, club, cap_after, churn, fill, turbulence) ==
    club_result(club, cap_after, churn, fill, turbulence,
        turnover(drift2(drift(rng, club.male, turbulence), club, turbulence),
                 Abs(cap_after - club.capacity)))

\* update_club with v01 = vibe_to_01(vibe_after) and the trainwreck flag
club_step(rng, club, v01, did_trainwreck) ==
    club_walk(rng, club,
        next_capacity(club.capacity, churn_of(v01, did_trainwreck),
                       fill_of(v01, did_trainwreck)),
        churn_of(v01, did_trainwreck), fill_of(v01, did_trainwreck),
        turbulence_of(v01, did_trainwreck))

update_club(rng, club, vibe_before, vibe_after, diagnostics) ==
    club_step(rng, club, vibe_to_01(vibe_after),
              diagnostics.did_trainwreck >= Milli(500))

---------------------------------------------------------------------------
(* medusa/webapp.py *)

TurnResult(turn_index, chosen_index, chosen_card, prev_active, points_gained, score_total, vibe_before, vibe_after, capacity_before, capacity_after, diagnostics, reaction) ==
    [turn_index |-> turn_index, chosen_index |-> chosen_index,
     chosen_card |-> chosen_card, prev_active |-> prev_active,
     points_gained |-> points_gained, score_total |-> score_total,
     vibe_before |-> vibe_before, vibe_after |-> vibe_after,
     capacity_before |-> capacity_before, capacity_after |-> capacity_after,
     diagnostics |-> diagnostics, reaction |-> reaction]

\* GameState(...) and state.hand = deal_hand(rng, state.active_song):
\* v is the new GameState, deal what deal_hand built
fresh_state(seed, active, d) ==
    [err |-> d.err,
     v |-> [rng_seed |-> seed, turn |-> 0, score |-> 0, vibe |-> VIBE_START,
            club |-> ClubState(CAPACITY_START, MALE_START, QUEER_START, NORMIE_START),
            active_song |-> active,
            hand |-> IF d.err = "none" THEN d.v ELSE << >>,
            history |-> << >>, last_reaction |-> << >>],
     deal |-> [active |-> active, pre |-> d.pre, hand |-> d.v]]

\* new_game once the active song is drawn
game_of(seed, active) == fresh_state(seed, active.v, deal_hand(active.rng, active.v))

\* seed: None or Some(n). entropy: what the environment seeds Random(None) with.
new_game(seed, entropy) ==
    game_of(seed, gen_base_song(Random(IF seed = None THEN entropy ELSE seed[1])))

\* the f-string of last_reaction: the points, the vibe change to 0 decimals,
\* the reaction
reaction_text(points, vibe_delta, reaction) ==
    <<points, py_round(vibe_delta), reaction>>

\* the TurnResult of play_card
turn_result(st, idx, sc, vibe_after, uc) ==
    TurnResult(st.turn, idx, st.hand[idx + 1], st.active_song, sc.points,
               st.score + sc.points, st.vibe, vibe_after,
               st.club.capacity, uc.club.capacity,
               sc.diag @@ uc.sim_diag, sc.reaction)

\* a request that changes nothing
rejected(st, err) ==
    [accepted |-> FALSE, err |-> err, state |-> st, deal |-> None, log |-> << >>]

\* a turn that sets the score to the points of the turn
apply_turn_overwrite(st, idx, sc, vibe_after, uc, d) ==
    [accepted |-> TRUE, err |-> d.err,
     state |-> [rng_seed |-> st.rng_seed,
                turn |-> st.turn + 1,
                score |-> sc.points,
                vibe |-> vibe_after,
                club |-> uc.club,
                active_song |-> st.hand[idx + 1],
                hand |-> IF d.err = "none" THEN d.v ELSE st.hand,
                history |-> Append(st.history, turn_result(st, idx, sc, vibe_after, uc)),
                last_reaction |-> reaction_text(sc.points, sc.vibe_delta, sc.reaction)],
     deal |-> Some([active |-> st.hand[idx + 1], pre |-> d.pre, hand |-> d.v]),
     log |-> d.rng.log]

\* play_card from "Record history" on: the GameState after the turn, d being
\* what deal_hand(rng, state.active_song) built
apply_turn(st, idx, sc, vibe_after, uc, d) ==
    [accepted |-> TRUE, err |-> d.err,
     state |-> [rng_seed |-> st.rng_seed,
                turn |-> st.turn + 1,
                score |-> st.score + sc.points,
                vibe |-> vibe_after,
                club |-> uc.club,
                active_song |-> st.hand[idx + 1],
                hand |-> IF d.err = "none" THEN d.v ELSE st.hand,
                history |-> Append(st.history, turn_result(st, idx, sc, vibe_after, uc)),
                last_reaction |-> reaction_text(sc.points, sc.vibe_delta, sc.reaction)],
     deal |-> Some([active |-> st.hand[idx + 1], pre |-> d.pre, hand |-> d.v]),
     log |-> d.rng.log]

\* play_card after update_club returned uc
simulated(st, idx, sc, vibe_after, uc) ==
    apply_turn(st, idx, sc, vibe_after, uc, deal_hand(uc.rng, st.hand[idx + 1]))

\* play_card after the clamp of the vibe
clamped(st, idx, sc, vibe_after) ==
    simulated(st, idx, sc, vibe_after,
              update_club(sc.rng, st.club, st.vibe, vibe_after, sc.diag))

\* play_card after score_choice returned sc
scored(st, idx, sc) ==
    IF sc.err # "none" THEN rejected(st, sc.err)
    ELSE clamped(st, idx, sc, clamp(st.vibe + sc.vibe_delta, VIBE_MIN, VIBE_MAX))

\* a generator seeded from the environment whatever the game's seed
turn_rng_ambient(st, entropy) == Random(entropy + st.turn * 10007)

\* rng = random.Random(seed + state.turn * 10007)
turn_rng(st, entropy) ==
    Random((IF st.rng_seed # None THEN st.rng_seed[1] ELSE entropy) + st.turn * 10007)

\* a handler without the end-of-game test
play_card_endless(st, choice, entropy) ==
    IF choice - 1 < 0 \/ choice - 1 >= Len(st.hand) THEN rejected(st, "none")
    ELSE scored(st, choice - 1,
            score_choice(turn_rng(st, entropy), st.turn, st.score, st.vibe,
                         st.club, st.active_song, st.hand[choice], st.history))

\* POST /game/{sid}/play on the GameState st. entropy: what random.randrange
\* returns when the game has no seed. The result: was the play accepted, the
\* GameState after the request, what deal_hand built, the draws taken.
play_card(st, choice, entropy) ==
    IF st.turn >= TOTAL_TURNS THEN rejected(st, "none")
    ELSE IF choice - 1 < 0 \/ choice - 1 >= Len(st.hand) THEN rejected(st, "none")
    ELSE scored(st, choice - 1,
            score_choice(turn_rng(st, entropy), st.turn, st.score, st.vibe,
                         st.club, st.active_song, st.hand[choice], st.history))

---------------------------------------------------------------------------
(* The contents of data/genres.json the model runs with *)

Num(n) == JNum(ToFp(n))

\* four genres: a ring on which no genre is 3 steps from another
SmallFile ==
    [status |-> "parsed",
     raw |-> [t |-> "obj", items |-> <<
        <<"dnb", JObj([bpm |-> JObj([mean |-> Num(172), std |-> Num(6),
                                     min |-> Num(160), max |-> Num(180)]),
                       appeal |-> JObj([male |-> JObj([mean |-> JNum(Milli(700)),
                                                       std |-> JNum(Milli(150))]),
                                        queer |-> JObj([mean |-> JNum(Milli(300))])]),
                       attributes |-> JList])>>,
        <<"house", JObj([bpm |-> JObj([mean |-> Num(124), std |-> Num(4),
                                       min |-> Num(118), max |-> Num(130)])])>>,
        <<"pop", JObj([bpm |-> JObj([mean |-> Num(110), std |-> Num(0),
                                     min |-> JNull]),
                       appeal |-> JObj([normie |-> JObj([mean |-> JNum(Milli(900)),
                                                         std |-> JNum(Milli(50))])])])>>,
        <<"techno", JObj([bpm |-> JObj([mean |-> Num(138), std |-> Num(5),
                                        min |-> Num(140), max |-> Num(140)])])>>
     >>]]

MissingFile == [status |-> "missing", raw |-> JNull]
UnparsableFile == [status |-> "unparsable", raw |-> JNull]

\* parsed, but "house" is a list and the mean of "pop" a string
MisshapenFile ==
    [status |-> "parsed",
     raw |-> [t |-> "obj", items |-> <<
        <<"pop", JObj([bpm |-> JObj([mean |-> JStr])])>>,
        <<"house", JList>> >>]]

\* three genres: "disco" with a fractional minimum, "funk" with its minimum
\* above its maximum, "rnb" with both above BPM_MAX
OddFile ==
    [status |-> "parsed",
     raw |-> [t |-> "obj", items |-> <<
        <<"rnb", JObj([bpm |-> JObj([mean |-> Num(200), std |-> Num(5),
                                     min |-> Num(200), max |-> Num(220)])])>>,
        <<"disco", JObj([bpm |-> JObj([mean |-> Num(120), std |-> Num(4),
                                       min |-> JNum(ToFp(118) + Milli(700)),
                                       max |-> Num(130)])])>>,
        <<"funk", JObj([bpm |-> JObj([mean |-> Num(110), std |-> Num(8),
                                      min |-> Num(150), max |-> Num(120)])])>>
     >>]]

\* the files the functions are applied under
FnFiles == {MissingFile, SmallFile, OddFile}

GameFiles == {MissingFile, SmallFile, UnparsableFile, MisshapenFile}

---------------------------------------------------------------------------
(* The game, one request at a time *)

Seeds == {None} \cup {Some(n) : n \in 1..MaxSeed}
Entropy == 1..MaxAmbient
\* the form values a request may carry: 0 and HAND_SIZE + 1 are no card
Choices == {0, 1, 4, HAND_SIZE, HAND_SIZE + 1}

Init ==
    /\ genreFile \in GameFiles
    /\ catalog = Unloaded
    /\ state = None
    /\ lastDeal = None
    /\ threads = << >>
    /\ twin = None
    /\ fnIn = None
    /\ fnOut = None

\* import medusa.genre
Import ==
    /\ catalog.status = "unloaded"
    /\ catalog' = import_genre(genreFile)
    /\ UNCHANGED <<genreFile, state, lastDeal, threads, twin, fnIn, fnOut>>

\* SESSIONS[sid] = g
Started(g) ==
    /\ state' = Some(g.v)
    /\ lastDeal' = Some(g.deal)

\* new_game(seed); GET / calls it with seed None
NewGame ==
    /\ catalog.status = "ok"
    /\ state = None
    /\ \E seed \in Seeds, e \in Entropy : Started(new_game(seed, e))
    /\ UNCHANGED <<genreFile, catalog, threads, twin, fnIn, fnOut>>

\* The requests the model sends: any of Choices in the first MaxTurns turns;
\* after them, in a seeded game in which card 1 was played every turn, card 1
\* or no card, up to the end of the game
Explored(st, choice) ==
    \/ st.turn < MaxTurns
    \/ /\ st.rng_seed # None
       /\ choice \in {0, 1}
       /\ \A i \in DOMAIN st.history : st.history[i].chosen_index = 0

\* random.randrange is called in a game without a seed only
EntropyFor(st) == IF st.rng_seed # None THEN {1} ELSE Entropy

\* the GameState and the deal after the request's outcome r
Played(r) ==
    /\ state' = Some(r.state)
    /\ lastDeal' = IF r.accepted THEN r.deal ELSE lastDeal

\* POST /game/{sid}/play
PlayCard ==
    /\ state # None
    /\ \E choice \in Choices, e \in EntropyFor(state[1]) :
        /\ Explored(state[1], choice)
        /\ Played(play_card(state[1], choice, e))
    /\ UNCHANGED <<genreFile, catalog, threads, twin, fnIn, fnOut>>

Next == Import \/ NewGame \/ PlayCard

Spec == Init /\ [][Next]_vars

---------------------------------------------------------------------------
(* Properties of the game *)

HasGame == state # None
GS == state[1]

\* sum(tr.points_gained for tr in history)
RECURSIVE SumPoints(_)
SumPoints(history) ==
    IF history = << >> THEN 0
    ELSE history[Len(history)].points_gained
            + SumPoints(SubSeq(history, 1, Len(history) - 1))

\* C1: in every state reached from new_game by play_card requests, accepted
\* or rejected, the hand holds HAND_SIZE cards and the history one entry per
\* turn played.
C1_HandAndHistory ==
    HasGame => Len(GS.hand) = HAND_SIZE /\ Len(GS.history) = GS.turn

\* the game was played to its last turn
C1_Witness ==
    HasGame /\ GS.turn = TOTAL_TURNS /\ Len(GS.hand) = HAND_SIZE

InUnit(x) == 0 <= x /\ x <= Scale
InRatio(x) == Milli(20) <= x /\ x <= Milli(980)

\* C2: after any number of turns the capacity is in [0, 1], each of
\* male/queer/normie in [0.02, 0.98] and the vibe in [VIBE_MIN, VIBE_MAX].
C2_ClubAndVibeInRange ==
    HasGame =>
        /\ InUnit(GS.club.capacity)
        /\ InRatio(GS.club.male) /\ InRatio(GS.club.queer) /\ InRatio(GS.club.normie)
        /\ VIBE_MIN <= GS.vibe /\ GS.vibe <= VIBE_MAX

\* a game with a trainwreck turn and a turn without, whose vibe sits on a
\* bound
C2_Witness ==
    /\ HasGame
    /\ \E i \in DOMAIN GS.history : GS.history[i].diagnostics.did_trainwreck = Scale
    /\ \E i \in DOMAIN GS.history : GS.history[i].diagnostics.did_trainwreck = 0
    /\ GS.vibe = VIBE_MIN

\* C6: the points of every turn are a non-negative integer, so the score
\* never decreases from one state to the next; and the score is the
\* score_total of the last history entry and the sum of points_gained over
\* the history.
C6_ScoreAccumulates ==
    /\ [](HasGame =>
            /\ \A i \in DOMAIN GS.history : GS.history[i].points_gained >= 0
            /\ GS.score = SumPoints(GS.history)
            /\ GS.history # << >> =>
                    GS.score = GS.history[Len(GS.history)].score_total)
    /\ [][HasGame /\ state' # None => state'[1].score >= GS.score]_vars

\* three turns played, the points of the later ones added to the first's
C6_Witness ==
    /\ HasGame
    /\ Len(GS.history) >= 3
    /\ GS.score > GS.history[1].points_gained
    /\ GS.score = GS.history[Len(GS.history)].score_total

\* the cards of a sequence with their multiplicities
BagOf(s) == [c \in Range(s) |-> Cardinality({i \in DOMAIN s : s[i] = c})]

InGenreBounds(c) ==
    /\ _genre_bpm_bounds(c.genre)[1] <= c.bpm
    /\ c.bpm <= _genre_bpm_bounds(c.genre)[2]

\* what gen_similar_song produces: the active genre or one adjacent to it
IsSimilarTo(c, active) ==
    /\ genre_distance(active.genre, c.genre).v <= 1
    /\ InGenreBounds(c)

\* what gen_different_song produces: a genre at least 3 steps away when the
\* ring has one, any genre otherwise
IsDifferentFrom(c, active) ==
    /\ KnownGenre(c.genre)
    /\ _far_genres(active.genre, 3).v # << >> =>
            genre_distance(active.genre, c.genre).v >= 3
    /\ InGenreBounds(c)

\* C7: deal_hand returns exactly HAND_SIZE cards; the list it shuffles holds
\* SIMILAR_CARDS cards of gen_similar_song followed by DIFFERENT_CARDS cards of
\* gen_different_song, and the hand returned is a permutation of that list.
C7_DealIsPermutation ==
    lastDeal # None =>
        /\ Len(lastDeal[1].hand) = HAND_SIZE
        /\ Len(lastDeal[1].pre) = SIMILAR_CARDS + DIFFERENT_CARDS
        /\ \A i \in 1..SIMILAR_CARDS :
                IsSimilarTo(lastDeal[1].pre[i], lastDeal[1].active)
        /\ \A i \in (SIMILAR_CARDS + 1)..HAND_SIZE :
                IsDifferentFrom(lastDeal[1].pre[i], lastDeal[1].active)
        /\ BagOf(lastDeal[1].hand) = BagOf(lastDeal[1].pre)

\* a deal of play_card whose shuffle moved cards, on the ring of ten genres
\* (different cards 3 steps away) and holding the same card twice
C7_Witness ==
    /\ lastDeal # None /\ HasGame /\ GS.turn >= 1
    /\ lastDeal[1].hand # lastDeal[1].pre
    /\ Len(GENRES) = 10
    /\ Cardinality(Range(lastDeal[1].pre)) < HAND_SIZE

---------------------------------------------------------------------------
(* The functions of the core, each applied on its own *)

\* a history entry as scoring.py reads it: the card played
Entry(card) == [chosen_card |-> card]

HistCards == {SongCard(b, g) : b \in {118, 124, 130}, g \in {"house", "pop"}}

Histories == UNION {[1..n -> {Entry(c) : c \in HistCards}] : n \in 0..MaxHist}

\* "polka" is in no genre list
ChosenCards == {SongCard(124, "house"), SongCard(150, "pop"), SongCard(124, "polka")}

RepInputs ==
    {[fn |-> "repetition_penalty", history |-> h, chosen |-> c] :
        h \in Histories, c \in ChosenCards}

\* raw outputs that make gauss draw the deviates -3.2, -0.1, 0.5 and 3.2
ScriptRaws == {0, 112, 160, 240}

IndexInputs == {[fn |-> "genre_index", genre |-> g] : g \in {"house", "polka", "pop"}}

SimilarInputs ==
    {[fn |-> "gen_similar_song", rng |-> Random(n), active |-> c] :
        n \in 1..MaxFnSeed, c \in ChosenCards}

DifferentInputs ==
    {[fn |-> "gen_different_song", rng |-> Random(n), active |-> c] :
        n \in 1..MaxFnSeed, c \in ChosenCards}

\* the same calls on generators whose first draw is 0.0 or 0.92
SimilarScripted ==
    {[fn |-> "gen_similar_song", rng |-> Scripted(f, 1, r), active |-> c] :
        f \in {0, 60000 + 300}, r \in ScriptRaws, c \in ChosenCards}

DifferentScripted ==
    {[fn |-> "gen_different_song", rng |-> Scripted(f, 1, r), active |-> c] :
        f \in {0, 60000 + 300}, r \in ScriptRaws, c \in ChosenCards}

ScoreInputs ==
    {[fn |-> "score_choice", rng |-> Random(n), active_song |-> a, chosen |-> c,
      history |-> h] :
        n \in 1..MaxFnSeed, a \in ChosenCards, c \in ChosenCards,
        h \in {<< >>, <<Entry(SongCard(124, "house"))>>}}

TruncInputs ==
    {[fn |-> "sample_trunc_normal_int", rng |-> Scripted(f, k, r),
      mean |-> m, std |-> sd, lo |-> b[1], hi |-> b[2]] :
        f \in ScriptRaws, r \in ScriptRaws, k \in {0, 1, 29, 30, 31},
        m \in {ToFp(80), ToFp(124) + Milli(500), ToFp(131), ToFp(200)},
        sd \in {0 - Scale, 0, Milli(500), ToFp(3), ToFp(50)},
        b \in {<<120, 130>>, <<125, 125>>, <<BPM_MIN, BPM_MAX>>}}

\* cards from very like to very unlike each other
EventCards ==
    {SongCard(b, g) : b \in {90, 130, 170}, g \in {"dnb", "house", "pop", "techno"}}

\* score_choice on generators whose three appeal draws are one deviate and
\* whose later draws are 0.0, 0.46 or 0.92; with k = 4 the trainwreck draw
\* is the raw output of the appeal draws (0.92 for the last of them)
EventInputs ==
    {[fn |-> "score_choice", rng |-> Scripted(f, k, r), active_song |-> a,
      chosen |-> c, history |-> << >>] :
        f \in ScriptRaws \cup {60000 + 300}, k \in {3, 4},
        r \in {0, 30000 + 146, 60000 + 300},
        a \in EventCards, c \in EventCards}

\* play_card on the game of seed n after `plays` turns, card 1 played in
\* each: the first turns of the games of every seed, the last turn and the
\* finished game of seed 1
PlayInputs ==
    {[fn |-> "play_card", seed |-> n, plays |-> k, choice |-> c] :
        n \in 1..MaxFnSeed, k \in 0..2, c \in Choices}
    \cup {[fn |-> "play_card", seed |-> 1, plays |-> k, choice |-> c] :
        k \in {TOTAL_TURNS - 1, TOTAL_TURNS}, c \in Choices}

\* names of the three files, and one of none
RingNames == {"disco", "dnb", "funk", "house", "polka", "pop", "rnb", "techno"}

DistanceInputs ==
    {[fn |-> "genre_distance", a |-> a, b |-> b] : a \in RingNames, b \in RingNames}

BoundsInputs == {[fn |-> "_genre_bpm_bounds", genre |-> g] : g \in RingNames}

InitFn ==
    /\ genreFile \in FnFiles
    /\ catalog = Unloaded
    /\ state = None
    /\ lastDeal = None
    /\ threads = << >>
    /\ twin = None
    /\ \/ fnIn \in RepInputs
       \/ fnIn \in IndexInputs
       \/ fnIn \in SimilarInputs
       \/ fnIn \in DifferentInputs
       \/ fnIn \in SimilarScripted
       \/ fnIn \in DifferentScripted
       \/ fnIn \in ScoreInputs
       \/ fnIn \in TruncInputs
       \/ fnIn \in DistanceInputs
       \/ fnIn \in BoundsInputs
       \/ fnIn \in EventInputs
       \/ fnIn \in PlayInputs
    /\ fnOut = None

\* the call fn can be made: the modules are imported, no result yet
Callable(fn) == catalog.status = "ok" /\ fnIn.fn = fn /\ fnOut = None

Returned(r) ==
    /\ fnOut' = Some(r)
    /\ UNCHANGED <<genreFile, catalog, state, lastDeal, threads, twin, fnIn>>

CallRepetitionPenalty ==
    /\ Callable("repetition_penalty")
    /\ Returned(repetition_penalty(fnIn.history, fnIn.chosen))

CallGenreIndex ==
    /\ Callable("genre_index")
    /\ Returned(genre_index(fnIn.genre))

CallGenSimilarSong ==
    /\ Callable("gen_similar_song")
    /\ Returned(gen_similar_song(fnIn.rng, fnIn.active))

CallGenDifferentSong ==
    /\ Callable("gen_different_song")
    /\ Returned(gen_different_song(fnIn.rng, fnIn.active))

CallScoreChoice ==
    /\ Callable("score_choice")
    /\ Returned(score_choice(fnIn.rng, Len(fnIn.history), 0, VIBE_START,
                    ClubState(CAPACITY_START, MALE_START, QUEER_START, NORMIE_START),
                    fnIn.active_song, fnIn.chosen, fnIn.history))

CallSampleTruncNormalInt ==
    /\ Callable("sample_trunc_normal_int")
    /\ Returned(sample_trunc_normal_int(fnIn.rng, fnIn.mean, fnIn.std,
                                        fnIn.lo, fnIn.hi))

CallGenreDistance ==
    /\ Callable("genre_distance")
    /\ Returned(genre_distance(fnIn.a, fnIn.b))

CallGenreBpmBounds ==
    /\ Callable("_genre_bpm_bounds")
    /\ Returned(_genre_bpm_bounds(fnIn.genre))

\* the request on the GameState st: st, and what play_card made of it
played_from(st, choice) == [before |-> st, after |-> play_card(st, choice, 1)]

\* POST /game/new with fnIn.seed, for the session the request will be sent to
OpenGame ==
    /\ Callable("play_card")
    /\ state = None
    /\ state' = Some(new_game(Some(fnIn.seed), fnIn.seed).v)
    /\ UNCHANGED <<genreFile, catalog, lastDeal, threads, twin, fnIn, fnOut>>

\* POST /game/{sid}/play with card 1, in each of the fnIn.plays turns before
\* the request
PlayAhead ==
    /\ Callable("play_card")
    /\ state # None
    /\ state[1].turn < fnIn.plays
    /\ state' = Some(play_card(state[1], 1, 1).state)
    /\ UNCHANGED <<genreFile, catalog, lastDeal, threads, twin, fnIn, fnOut>>

\* POST /game/{sid}/play with fnIn.choice, after fnIn.plays turns
CallPlayCard ==
    /\ Callable("play_card")
    /\ state # None
    /\ state[1].turn = fnIn.plays
    /\ Returned(played_from(state[1], fnIn.choice))

NextFn ==
    \/ Import
    \/ CallRepetitionPenalty
    \/ CallGenreIndex
    \/ CallGenSimilarSong
    \/ CallGenDifferentSong
    \/ CallScoreChoice
    \/ CallSampleTruncNormalInt
    \/ CallGenreDistance
    \/ CallGenreBpmBounds
    \/ OpenGame
    \/ PlayAhead
    \/ CallPlayCard

SpecFn == InitFn /\ [][NextFn]_vars

---------------------------------------------------------------------------
(* Properties of the functions *)

Called(fn) == fnIn # None /\ fnIn.fn = fn /\ fnOut # None

\* the entries repetition_penalty looks at: the last three
Window == LastK(fnIn.history, 3)

\* every entry of the window has the genre of the chosen card and a BPM
\* within 8 of its BPM
AllSamey ==
    \A i \in DOMAIN Window :
        /\ Window[i].chosen_card.genre = fnIn.chosen.genre
        /\ Abs(Window[i].chosen_card.bpm - fnIn.chosen.bpm) <= 8

About(x, y) == Abs(x - y) <= Milli(5)

\* C5: when the three most recent entries all have the genre of the chosen
\* card and a BPM within 8 of its BPM, rep_mult is about 0.72^3 = 0.373; one
\* such entry gives about 0.72 and two give about 0.52.
C5_RepetitionStacks ==
    (Called("repetition_penalty") /\ fnOut[1].err = "none" /\ AllSamey) =>
        /\ Len(Window) = 1 => About(fnOut[1].rep_mult, Milli(720))
        /\ Len(Window) = 2 => About(fnOut[1].rep_mult, Milli(518))
        /\ Len(Window) = 3 => About(fnOut[1].rep_mult, Milli(373))

\* C8: loading the genre tendencies never fails the program: whatever the
\* file is (missing, unparsable, entries of the wrong shape), the import
\* completes, and when the load raised, the genre list is the built-in one
\* with the default tendencies for every name.
C8_LoadNeverFails ==
    catalog.status # "unloaded" =>
        /\ catalog.status = "ok"
        /\ load_genres(genreFile).err # "none" =>
            /\ GENRES = FallbackGenres
            /\ \A i \in DOMAIN GENRES :
                    get_genre_def(GENRES[i]) = _default_genre(GENRES[i])

\* C9: a genre name absent from the genre list is never silently defaulted:
\* genre_index raises the unknown-genre error for it, and gen_similar_song,
\* gen_different_song and score_choice raise it whenever a card they receive
\* has such a genre.
C9_UnknownGenreRaises ==
    /\ (Called("genre_index") /\ ~KnownGenre(fnIn.genre)) =>
            fnOut[1].err = "ValueError"
    /\ (Called("gen_similar_song") /\ ~KnownGenre(fnIn.active.genre)) =>
            fnOut[1].err = "ValueError"
    /\ (Called("gen_different_song") /\ ~KnownGenre(fnIn.active.genre)) =>
            fnOut[1].err = "ValueError"
    /\ (Called("score_choice")
            /\ (~KnownGenre(fnIn.active_song.genre) \/ ~KnownGenre(fnIn.chosen.genre))) =>
            fnOut[1].err = "ValueError"

\* the k-th Gaussian draw of the call made
GaussAt(k) == rng_gauss([fnIn.rng EXCEPT !.n = k - 1], fnIn.mean, fnIn.std).v

Missed(k) == ~(ToFp(fnIn.lo) <= GaussAt(k) /\ GaussAt(k) <= ToFp(fnIn.hi))

\* the draws the call took
Draws == Len(fnOut[1].rng.log)

\* C10: sample_trunc_normal_int returns an integer in [lo, hi] for every
\* mean, every std and all lo <= hi, whatever the Gaussian draws are; it
\* takes at most 30 draws, none when std <= 0, and returns the clamped
\* rounded mean when all 30 draws fall outside [lo, hi].
C10_TruncatedSample ==
    Called("sample_trunc_normal_int") =>
        /\ fnIn.lo <= fnOut[1].v /\ fnOut[1].v <= fnIn.hi
        /\ Draws <= 30
        /\ fnIn.std <= 0 => Draws = 0
        /\ (fnIn.std > 0 /\ \A k \in 1..30 : Missed(k)) =>
                fnOut[1].v = clamp_int(py_round(fnIn.mean), fnIn.lo, fnIn.hi)
        /\ \A k \in 1..30 :
                (fnIn.std > 0 /\ ~Missed(k) /\ \A j \in 1..(k - 1) : Missed(j)) =>
                    fnOut[1].v = py_round(GaussAt(k)) /\ Draws = k

\* 29 draws above hi, the 30th inside
C10_Witness ==
    /\ Called("sample_trunc_normal_int")
    /\ Draws = 30
    /\ \A k \in 1..29 : GaussAt(k) > ToFp(fnIn.hi)
    /\ ~Missed(30)

---------------------------------------------------------------------------
(* Two independent runs of one game: the same seed, the same choices, each  *)
(* run in an environment of its own                                         *)

InitDet ==
    /\ genreFile \in {MissingFile, SmallFile}
    /\ catalog = Unloaded
    /\ state = None
    /\ twin = None
    /\ lastDeal = None
    /\ threads = << >>
    /\ fnIn = None
    /\ fnOut = None

\* what the two environments would seed a generator with: never the same
Apart == {<<1, MaxAmbient>>, <<MaxAmbient, 1>>}

\* both runs after a step: g1 and g2 are their GameStates
BothAt(g1, g2) ==
    /\ state' = Some(g1)
    /\ twin' = Some(g2)
    /\ UNCHANGED <<genreFile, catalog, lastDeal, threads, fnIn, fnOut>>

\* new_game(seed) in both runs
NewGameBoth ==
    /\ catalog.status = "ok"
    /\ state = None
    /\ \E n \in 1..MaxSeed, e \in Apart :
            BothAt(new_game(Some(n), e[1]).v, new_game(Some(n), e[2]).v)

\* the same request in both runs
PlayCardBoth ==
    /\ state # None
    /\ \E choice \in Choices, e \in Apart :
        /\ Explored(state[1], choice)
        /\ BothAt(play_card(state[1], choice, e[1]).state,
                  play_card(twin[1], choice, e[2]).state)

NextDet == Import \/ NewGameBoth \/ PlayCardBoth

SpecDet == InitDet /\ [][NextDet]_vars

\* C4: two independent runs that start new_game with the same non-null seed
\* and apply the same sequence of choices are in identical GameStates at
\* every step: same active song, hand, score, vibe, club, reaction, and the
\* same history with its diagnostics.
C4_Deterministic ==
    state # None => twin # None /\ twin[1] = state[1]

\* both runs played three turns, a surprise and a trainwreck among them
C4_Witness ==
    /\ state # None /\ twin # None
    /\ state[1].turn >= 3 /\ twin[1].turn = state[1].turn
    /\ \E i \in DOMAIN twin[1].history :
            twin[1].history[i].reaction = SURPRISE_MSG
    /\ \E i \in DOMAIN twin[1].history :
            twin[1].history[i].reaction = TRAINWRECK_MSG

---------------------------------------------------------------------------
(* play_card on worker threads: the handler is a plain function, which the  *)
(* framework runs on a thread pool, and nothing in it takes a lock.  A      *)
(* thread may be suspended at any call the handler makes; the model lets    *)
(* it be suspended before score_choice, before TurnResult(...), before the  *)
(* state updates and before deal_hand.                                      *)

Threads == {1, 2}

Idle == [pc |-> "idle", l |-> None]

\* the locals of play_card up to `cap_before = state.club.capacity`
begun(st, idx, rng) ==
    [pc |-> "scoring",
     l |-> Some([idx |-> idx, rng |-> rng, chosen |-> st.hand[idx + 1],
                 vibe_before |-> st.vibe, cap_before |-> st.club.capacity])]

\* the locals once update_club returned uc
after_update(L, sc, vibe_after, uc) ==
    [pc |-> "recording",
     l |-> Some([idx |-> L.idx, rng |-> uc.rng, chosen |-> L.chosen,
                 vibe_before |-> L.vibe_before, cap_before |-> L.cap_before,
                 points |-> sc.points, vibe_delta |-> sc.vibe_delta,
                 reaction |-> sc.reaction, diag |-> sc.diag,
                 vibe_after |-> vibe_after, new_club |-> uc.club,
                 sim_diag |-> uc.sim_diag])]

\* vibe_after = clamp(state.vibe + vibe_delta, VIBE_MIN, VIBE_MAX) and
\* update_club(...)
after_clamp(L, st, sc, vibe_after) ==
    after_update(L, sc, vibe_after,
                 update_club(sc.rng, st.club, L.vibe_before, vibe_after, sc.diag))

\* the thread once score_choice returned sc: an exception ends the request
after_score(L, st, sc) ==
    IF sc.err # "none" THEN Idle
    ELSE after_clamp(L, st, sc, clamp(st.vibe + sc.vibe_delta, VIBE_MIN, VIBE_MAX))

\* tr = TurnResult(...), read from the GameState as it is now
recorded(L, st) ==
    TurnResult(st.turn, L.idx, L.chosen, st.active_song, L.points,
               st.score + L.points, L.vibe_before, L.vibe_after, L.cap_before,
               L.new_club.capacity, L.diag @@ L.sim_diag, L.reaction)

InitConc ==
    /\ genreFile \in {MissingFile, SmallFile}
    /\ catalog = Unloaded
    /\ state = None
    /\ lastDeal = None
    /\ threads = [t \in Threads |-> Idle]
    /\ twin = None
    /\ fnIn = None
    /\ fnOut = None

\* GET /: a session is created
OpenSession ==
    /\ catalog.status = "ok"
    /\ state = None
    /\ \E n \in 1..MaxAmbient : Started(new_game(Some(n), n))
    /\ UNCHANGED <<genreFile, catalog, threads, twin, fnIn, fnOut>>

\* the executions of play_card under way
InFlight == {t \in Threads : threads[t].pc # "idle"}

\* play_card from its start to `cap_before = state.club.capacity`; a
\* rejected request returns at once. The model sends MaxTurns requests.
Begin(t) ==
    /\ state # None
    /\ threads[t].pc = "idle"
    /\ Len(state[1].history) + Cardinality(InFlight) < MaxTurns
    /\ \E choice \in Choices :
        /\ state[1].turn < TOTAL_TURNS
        /\ choice - 1 >= 0 /\ choice - 1 < Len(state[1].hand)
        /\ threads' = [threads EXCEPT
                ![t] = begun(state[1], choice - 1, turn_rng(state[1], 1))]
    /\ UNCHANGED <<genreFile, catalog, state, lastDeal, twin, fnIn, fnOut>>

\* score_choice(...), the clamp of the vibe, update_club(...)
Score(t) ==
    /\ threads[t].pc = "scoring"
    /\ threads' = [threads EXCEPT ![t] =
            after_score(threads[t].l[1], state[1],
                score_choice(threads[t].l[1].rng, state[1].turn, state[1].score,
                             state[1].vibe, state[1].club, state[1].active_song,
                             threads[t].l[1].chosen, state[1].history))]
    /\ UNCHANGED <<genreFile, catalog, state, lastDeal, twin, fnIn, fnOut>>

\* tr = TurnResult(...); state.history.append(tr); state.last_reaction = ...
Record(t) ==
    /\ threads[t].pc = "recording"
    /\ state' = Some([state[1] EXCEPT
            !.history = Append(@, recorded(threads[t].l[1], state[1])),
            !.last_reaction = reaction_text(threads[t].l[1].points,
                                            threads[t].l[1].vibe_delta,
                                            threads[t].l[1].reaction)])
    /\ threads' = [threads EXCEPT ![t].pc = "applying"]
    /\ UNCHANGED <<genreFile, catalog, lastDeal, twin, fnIn, fnOut>>

\* the five state updates
Apply(t) ==
    /\ threads[t].pc = "applying"
    /\ state' = Some([state[1] EXCEPT
            !.score = @ + threads[t].l[1].points,
            !.vibe = threads[t].l[1].vibe_after,
            !.club = threads[t].l[1].new_club,
            !.active_song = threads[t].l[1].chosen,
            !.turn = @ + 1])
    /\ threads' = [threads EXCEPT ![t].pc = "dealing"]
    /\ UNCHANGED <<genreFile, catalog, lastDeal, twin, fnIn, fnOut>>

\* the GameState and the deal once deal_hand returned d
Dealt(d) ==
    /\ state' = Some([state[1] EXCEPT !.hand = IF d.err = "none" THEN d.v ELSE @])
    /\ lastDeal' = Some([active |-> state[1].active_song, pre |-> d.pre, hand |-> d.v])

\* state.hand = deal_hand(rng, state.active_song), and the redirect
Deal(t) ==
    /\ threads[t].pc = "dealing"
    /\ Dealt(deal_hand(threads[t].l[1].rng, state[1].active_song))
    /\ threads' = [threads EXCEPT ![t] = Idle]
    /\ UNCHANGED <<genreFile, catalog, twin, fnIn, fnOut>>

NextConc ==
    \/ Import
    \/ OpenSession
    \/ \E t \in Threads : Begin(t)
    \/ \E t \in Threads : Score(t)
    \/ \E t \in Threads : Record(t)
    \/ \E t \in Threads : Apply(t)
    \/ \E t \in Threads : Deal(t)

SpecConc == InitConc /\ [][NextConc]_vars

\* C3: two executions of play_card on the same GameState never interleave
\* their reads and writes, so every accepted play is applied exactly once:
\* whenever no execution is under way the history holds one entry per turn,
\* entry i being turn i, and the score is the sum of the points gained.
C3_NeverInterleaved ==
    /\ Cardinality(InFlight) <= 1
    /\ (HasGame /\ InFlight = {}) =>
        /\ Len(GS.history) = GS.turn
        /\ GS.score = SumPoints(GS.history)
        /\ \A i \in DOMAIN GS.history : GS.history[i].turn_index = i - 1

\* the largest genre_distance over all pairs of the ring
IsMaxDistance(d) ==
    /\ \A i \in DOMAIN GENRES, j \in DOMAIN GENRES :
            genre_distance(GENRES[i], GENRES[j]).v <= d
    /\ \E i \in DOMAIN GENRES, j \in DOMAIN GENRES :
            genre_distance(GENRES[i], GENRES[j]).v = d

\* C11: on the ring of n genres genre_distance(a, b) = genre_distance(b, a)
\* for all genres a and b, genre_distance(a, b) is 0 exactly when a = b, and
\* the largest distance over all pairs is floor(n / 2).
C11_RingDistance ==
    /\ (Called("genre_distance") /\ KnownGenre(fnIn.a) /\ KnownGenre(fnIn.b)) =>
            /\ fnOut[1].err = "none"
            /\ fnOut[1] = genre_distance(fnIn.b, fnIn.a)
            /\ fnOut[1].v = 0 <=> fnIn.a = fnIn.b
    /\ Called("genre_distance") => IsMaxDistance(Len(GENRES) \div 2)

\* two genres of the ring of three, at the largest distance
C11_Witness ==
    /\ Called("genre_distance")
    /\ Len(GENRES) = 3
    /\ fnIn.a # fnIn.b
    /\ fnOut[1].err = "none" /\ fnOut[1].v = 1

\* the genre's configured minimum and maximum, the global floor and ceiling
\* when absent, cut to [BPM_MIN, BPM_MAX]
ConfiguredLo ==
    Max2(BPM_MIN, IF get_genre_def(fnIn.genre).bpm.min # None
                  THEN py_int(get_genre_def(fnIn.genre).bpm.min[1]) ELSE BPM_MIN)
ConfiguredHi ==
    Min2(BPM_MAX, IF get_genre_def(fnIn.genre).bpm.max # None
                  THEN py_int(get_genre_def(fnIn.genre).bpm.max[1]) ELSE BPM_MAX)

\* C14: _genre_bpm_bounds returns the intersection of the genre's configured
\* [min, max] with [BPM_MIN, BPM_MAX] whenever it is non-empty, a single
\* point (lo = hi) included; it falls back to [BPM_MIN, BPM_MAX] only when
\* the intersection is empty (lo > hi); the bounds returned lie within
\* [BPM_MIN, BPM_MAX].
C14_BoundsIntersection ==
    Called("_genre_bpm_bounds") =>
        /\ ConfiguredLo <= ConfiguredHi => fnOut[1] = <<ConfiguredLo, ConfiguredHi>>
        /\ ConfiguredLo > ConfiguredHi => fnOut[1] = <<BPM_MIN, BPM_MAX>>
        /\ BPM_MIN <= fnOut[1][1] /\ fnOut[1][2] <= BPM_MAX

\* the turn scored without an exception
Scored == Called("score_choice") /\ fnOut[1].err = "none"

\* C12: in score_choice a trainwreck fires only when the similarity of the
\* active and the chosen card is below 0.45, whatever the draw; the surprise
\* fires only when no trainwreck fired and the similarity is below 0.75, so
\* the two never fire in one turn (after a trainwreck the surprise draw is
\* not even taken); and the reaction is the trainwreck message exactly when
\* did_trainwreck is 1.
C12_EventThresholds ==
    Scored =>
        /\ fnOut[1].diag.did_trainwreck \in {0, Scale}
        /\ fnOut[1].diag.did_trainwreck = Scale =>
                /\ fnOut[1].diag.similarity < Milli(450)
                /\ fnOut[1].rng.log = <<"gauss", "gauss", "gauss", "random">>
        /\ fnOut[1].reaction = SURPRISE_MSG =>
                /\ fnOut[1].diag.did_trainwreck = 0
                /\ fnOut[1].diag.similarity < Milli(750)
        /\ fnOut[1].reaction = TRAINWRECK_MSG <=> fnOut[1].diag.did_trainwreck = Scale

\* a trainwreck on a draw of 0.46
C12_Witness ==
    /\ Scored
    /\ fnIn.rng.kind = "scripted" /\ fnIn.rng.s[2] = 3 /\ fnIn.rng.s[3] > 30000
    /\ fnOut[1].diag.did_trainwreck = Scale
    /\ fnOut[1].reaction = TRAINWRECK_MSG

\* the request made, the GameState it found and what play_card returned
Requested == Called("play_card")
Before == fnOut[1].before
After == fnOut[1].after

\* the TurnResult of the turn just played
Turn == After.state.history[Len(After.state.history)]

\* the draws of scoring and club simulation, as C13 orders them
ScoringDraws ==
    <<"gauss", "gauss", "gauss", "random">>
        \o (IF Turn.diagnostics.did_trainwreck = Scale THEN << >> ELSE <<"random">>)
ClubDraws ==
    <<"uniform", "uniform", "uniform">>
        \o (IF Abs(Turn.diagnostics.capacity_delta) > Milli(40)
            THEN <<"uniform", "uniform", "uniform">> ELSE << >>)
TurnDraws == ScoringDraws \o ClubDraws

\* the draws deal_hand takes from the turn's generator when TurnDraws draws
\* were taken from it before
DealDraws ==
    deal_hand([turn_rng(Before, 1) EXCEPT !.n = Len(TurnDraws)],
              Before.hand[fnIn.choice]).rng.log

\* C13: within an accepted turn the draws are taken from the turn's
\* generator in a fixed order: three appeal draws, the trainwreck draw, the
\* surprise draw (only when no trainwreck), three drift draws, three jitter
\* draws (only when |capacity change| > 0.04), and only after all of these
\* the draws that deal the next hand.
C13_DrawOrder ==
    (Requested /\ After.accepted) =>
        /\ After.log = TurnDraws \o DealDraws
        /\ DealDraws # << >>
        /\ \A i \in DOMAIN DealDraws : DealDraws[i] # "uniform"
        /\ DealDraws[Len(DealDraws)] = "shuffle"

\* a turn without a trainwreck whose capacity moved by more than 0.04
C13_Witness ==
    /\ Requested /\ After.accepted
    /\ Turn.diagnostics.did_trainwreck = 0
    /\ Abs(Turn.diagnostics.capacity_delta) > Milli(40)
    /\ Len(After.log) > 11

\* the request is one play_card does not accept
NotAccepted ==
    \/ fnIn.choice < 1 \/ fnIn.choice > Len(Before.hand)
    \/ Before.turn >= TOTAL_TURNS

\* C15: a request that is not accepted (choice outside 1..len(hand), or
\* turn >= TOTAL_TURNS) leaves the whole GameState unchanged; an accepted one
\* increments the turn by exactly 1, appends exactly one history entry and
\* leaves the earlier entries unchanged; so the turn never exceeds
\* TOTAL_TURNS, and after TOTAL_TURNS accepted plays no request changes the
\* state.
C15_FrameOfPlayCard ==
    Requested =>
        /\ NotAccepted => ~After.accepted /\ After.state = Before
        /\ ~NotAccepted =>
            /\ After.accepted
            /\ After.state.turn = Before.turn + 1
            /\ Len(After.state.history) = Len(Before.history) + 1
            /\ SubSeq(After.state.history, 1, Len(Before.history)) = Before.history
        /\ After.state.turn <= TOTAL_TURNS
        /\ Len(Before.history) = TOTAL_TURNS => After.state = Before

\* a card of the hand requested after the last turn
C15_Witness ==
    /\ Requested
    /\ Before.turn = TOTAL_TURNS /\ Len(Before.history) = TOTAL_TURNS
    /\ fnIn.choice = 1
    /\ After.state = Before

=============================================================================
